---- MODULE Spec2Model ----
(***************************************************************************)
(* Model of src/src/httpRequestParser.ts: parseHttpRequest and its helpers *)
(* parseRequestLine, parseHeaders, parseBody and getHeader.                *)
(*                                                                         *)
(* A string is a sequence of one-character strings, so that trimming,      *)
(* prefix tests, splitting and joining are computed character by           *)
(* character as the code computes them.  A document is the sequence of     *)
(* its physical lines, i.e. message.split(EOL).                            *)
(***************************************************************************)
EXTENDS Naturals, Sequences, FiniteSets

\* ------------------------------------------------------------------------
\* Bounds of the model
\* ------------------------------------------------------------------------

\* most physical lines of a document
MaxLines == 4

\* most header lines handed to parseHeaders in SpecHeaders
MaxHeaderLines == 3

\* most lines after the request line in SpecSplit
MaxFollowingLines == 2

\* ------------------------------------------------------------------------
\* Strings
\* ------------------------------------------------------------------------

\* String.prototype.trim and \s: the whitespace of the model's alphabet
IsWs(c) == c \in {" ", "\t"}

RECURSIVE TrimStart(_)
TrimStart(s) ==
  IF s # <<>> /\ IsWs(Head(s)) THEN TrimStart(Tail(s)) ELSE s

RECURSIVE TrimEnd(_)
TrimEnd(s) ==
  IF s # <<>> /\ IsWs(s[Len(s)]) THEN TrimEnd(SubSeq(s, 1, Len(s) - 1)) ELSE s

Trim(s) == TrimEnd(TrimStart(s))

StartsWith(s, p) == Len(s) >= Len(p) /\ SubSeq(s, 1, Len(p)) = p

\* String.prototype.substring(from) with a 0-based index
Substring(s, from) == SubSeq(s, from + 1, Len(s))

UpperLetters ==
  <<"A", "B", "C", "D", "E", "F", "G", "H", "I", "J", "K", "L", "M",
    "N", "O", "P", "Q", "R", "S", "T", "U", "V", "W", "X", "Y", "Z">>

LowerLetters ==
  <<"a", "b", "c", "d", "e", "f", "g", "h", "i", "j", "k", "l", "m",
    "n", "o", "p", "q", "r", "s", "t", "u", "v", "w", "x", "y", "z">>

Digits == {"0", "1", "2", "3", "4", "5", "6", "7", "8", "9"}

Range(f) == {f[i] : i \in DOMAIN f}

IsLetter(c) == c \in Range(UpperLetters) \cup Range(LowerLetters)

LowerChar(c) ==
  IF c \in Range(UpperLetters)
  THEN LowerLetters[CHOOSE i \in 1..26 : UpperLetters[i] = c]
  ELSE c

\* String.prototype.toLowerCase
ToLowerCase(s) == [i \in 1..Len(s) |-> LowerChar(s[i])]

\* String.prototype.split(sep) for a one-character separator
RECURSIVE SplitAcc(_, _, _)
SplitAcc(s, sep, cur) ==
  IF s = <<>> THEN <<cur>>
  ELSE IF Head(s) = sep THEN <<cur>> \o SplitAcc(Tail(s), sep, <<>>)
  ELSE SplitAcc(Tail(s), sep, Append(cur, Head(s)))

Split(s, sep) == SplitAcc(s, sep, <<>>)

\* Array.prototype.join(sep)
RECURSIVE Join(_, _)
Join(parts, sep) ==
  IF parts = <<>> THEN <<>>
  ELSE IF Len(parts) = 1 THEN parts[1]
  ELSE parts[1] \o sep \o Join(Tail(parts), sep)

\* what a RegExp test sees when it is handed the value undefined
UndefinedText == <<"u", "n", "d", "e", "f", "i", "n", "e", "d">>

\* ------------------------------------------------------------------------
\* Patterns and constants of the parser
\* ------------------------------------------------------------------------

DEFAULT_METHOD == <<"G", "E", "T">>

DEFAULT_VERSION == <<"H", "T", "T", "P", "/", "1", ".", "1">>

\* /^\s*[&\?/]/.test(s)
LONG_REQUEST_LINE_BREAK_PREFIX(s) ==
  LET t == TrimStart(s) IN t # <<>> /\ Head(t) \in {"&", "?", "/"}

\* /^\/\/\s*/.test(s)
COMMENT_LINE_PREFIX(s) == StartsWith(s, <<"/", "/">>)

\* the alternatives of REQUEST_LINE_PREFIX, in the order of the pattern
RequestLineMethods ==
  << <<"G", "E", "T">>, <<"P", "O", "S", "T">>, <<"P", "U", "T">>,
     <<"D", "E", "L", "E", "T", "E">>, <<"P", "A", "T", "C", "H">>,
     <<"H", "E", "A", "D">>, <<"O", "P", "T", "I", "O", "N", "S">>,
     <<"C", "O", "N", "N", "E", "C", "T">>, <<"T", "R", "A", "C", "E">> >>

\* the method type of the module: the eight methods of `methods`
methods ==
  { <<"G", "E", "T">>, <<"H", "E", "A", "D">>, <<"P", "O", "S", "T">>,
    <<"P", "U", "T">>, <<"D", "E", "L", "E", "T", "E">>,
    <<"C", "O", "N", "N", "E", "C", "T">>,
    <<"O", "P", "T", "I", "O", "N", "S">>, <<"T", "R", "A", "C", "E">> }

\* does s start with method m followed by one whitespace character
MethodPrefixAt(s, m) ==
  StartsWith(s, m) /\ Len(s) > Len(m) /\ IsWs(s[Len(m) + 1])

\* REQUEST_LINE_PREFIX.exec(s): the indices of the alternatives that match
REQUEST_LINE_PREFIX(s) ==
  {i \in DOMAIN RequestLineMethods : MethodPrefixAt(s, RequestLineMethods[i])}

\* HTTP_VERSION.exec(s): the 1-based positions i at which \s+HTTP\/.*$ matches
HttpVersionStarts(s) ==
  {i \in 1..Len(s) :
     \E j \in (i + 1)..Len(s) :
        /\ \A k \in i..(j - 1) : IsWs(s[k])
        /\ StartsWith(SubSeq(s, j, Len(s)), <<"H", "T", "T", "P", "/">>)}

Min(S) == CHOOSE x \in S : \A y \in S : x <= y

\* /^[a-zA-Z-_]+$/.test(s)
HEADER_LINE_FIELD_NAME(s) ==
  s # <<>> /\ \A i \in 1..Len(s) : IsLetter(s[i]) \/ s[i] \in {"-", "_"}

\* the punctuation HEADER_LINE_FIELD_VALUE allows (the backquote, which the
\* pattern also allows, cannot be written as a string here and is in no input)
FieldValuePunctuation ==
  {"_", " ", ":", ";", ".", ",", "\\", "/", "\"", "'", "?", "!", "(", ")",
   "{", "}", "[", "]", "@", "<", ">", "=", "-", "+", "*", "#", "$", "&",
   "|", "~", "^", "%"}

\* HEADER_LINE_FIELD_VALUE.test(s): letters, digits and the punctuation above
HEADER_LINE_FIELD_VALUE(s) ==
  \A i \in 1..Len(s) :
     IsLetter(s[i]) \/ s[i] \in Digits \/ s[i] \in FieldValuePunctuation

\* ------------------------------------------------------------------------
\* The line classifier: the while loop of parseHttpRequest
\* ------------------------------------------------------------------------

\* enum ParseState
ParseState == {"Comment", "RequestLine", "Header", "Body"}

\* what the loop of parseHttpRequest holds before its first iteration
ClassifierStart(message) ==
  [lines |-> message, state |-> "RequestLine", prevState |-> "null",
   requestLines |-> <<>>, headersLines |-> <<>>, bodyLines |-> <<>>]

\* Array.prototype.shift on the remaining lines (nothing to remove: no change)
Shift(ls) == IF ls = <<>> THEN ls ELSE Tail(ls)

\* the comment test of line 79 made only outside the body
IsCommentLineOutsideBody(st, currentLine) ==
  st # "Body" /\ COMMENT_LINE_PREFIX(currentLine)

\* line 79: is the line read in state st a comment line
IsCommentLine(st, currentLine) == COMMENT_LINE_PREFIX(currentLine)

\* One iteration of the while loop, for c.lines # <<>>.  nextLine is
\* undefined when no line follows; a pattern tested on undefined is tested on
\* the text "undefined".
ClassifyLine(c) ==
  LET currentLine == Trim(Head(c.lines))
      rest == Tail(c.lines)
      hasNext == rest # <<>>
      nextLine == IF hasNext THEN Trim(Head(rest)) ELSE <<>>
      nextText == IF hasNext THEN nextLine ELSE UndefinedText
      isComment == IsCommentLine(c.state, currentLine)
      prev1 == IF isComment THEN c.state ELSE c.prevState
      state1 == IF isComment THEN "Comment" ELSE c.state
  IN
  CASE state1 = "Comment" ->
         IF ~COMMENT_LINE_PREFIX(nextText)
         THEN [c EXCEPT !.lines = rest,
                        !.state = IF prev1 = "null" THEN "RequestLine" ELSE prev1,
                        !.prevState = "null"]
         ELSE [c EXCEPT !.lines = rest, !.state = state1, !.prevState = prev1]
    [] state1 = "RequestLine" ->
         LET pushed == [c EXCEPT !.requestLines = Append(@, currentLine),
                                 !.prevState = prev1]
         IN IF ~hasNext \/ LONG_REQUEST_LINE_BREAK_PREFIX(nextText)
            THEN [pushed EXCEPT !.lines = rest]
            ELSE IF nextLine # <<>>
            THEN [pushed EXCEPT !.lines = rest, !.state = "Header"]
            ELSE [pushed EXCEPT !.lines = Shift(rest), !.state = "Body"]
    [] state1 = "Header" ->
         LET pushed == [c EXCEPT !.headersLines = Append(@, currentLine),
                                 !.prevState = prev1]
         IN IF ~hasNext \/ nextLine = <<>>
            THEN [pushed EXCEPT !.lines = Shift(rest), !.state = "Body"]
            ELSE [pushed EXCEPT !.lines = rest]
    [] state1 = "Body" ->
         [c EXCEPT !.lines = rest, !.bodyLines = Append(@, currentLine),
                   !.prevState = prev1]

\* the loop run to its end
RECURSIVE Classify(_)
Classify(c) == IF c.lines = <<>> THEN c ELSE Classify(ClassifyLine(c))

\* ------------------------------------------------------------------------
\* Header values and results
\* ------------------------------------------------------------------------

\* HeaderValue: undefined, or a string
Undefined == [defined |-> FALSE, value |-> <<>>]

Defined(v) == [defined |-> TRUE, value |-> v]

\* JavaScript truthiness of a HeaderValue: undefined and "" are falsy
Truthy(hv) == hv.defined /\ hv.value # <<>>

\* a thrown HttpParseError
HttpParseError(message) ==
  [ok |-> FALSE, error |-> message, method |-> <<>>, pathname |-> <<>>,
   uri |-> <<>>, version |-> <<>>, headers |-> <<>>, body |-> Undefined]

\* getHeader(headers, name): the value under the first key that equals name
\* case-insensitively, undefined when there is none
getHeader(hs, name) ==
  LET found == {i \in DOMAIN hs : ToLowerCase(hs[i].name) = ToLowerCase(name)}
  IN IF name = <<>> \/ found = {} THEN Undefined
     ELSE Defined(hs[Min(found)].value)

HostName == <<"h", "o", "s", "t">>

ContentTypeName == <<"c", "o", "n", "t", "e", "n", "t", "-", "t", "y", "p", "e">>

CookieName == <<"c", "o", "o", "k", "i", "e">>

\* ------------------------------------------------------------------------
\* new URL(input), as parseRequestLine uses it: does the target parse as an
\* absolute URL, and what are href, pathname and search.  The inputs of the
\* model hold no credentials, fragments, percent-encoding, dot segments or
\* numeric hosts, which this does not model.
\* ------------------------------------------------------------------------

IsSchemeChar(c) == IsLetter(c) \/ c \in Digits \/ c \in {"+", "-", "."}

\* the longest prefix of scheme characters
RECURSIVE SchemeRun(_)
SchemeRun(s) ==
  IF s # <<>> /\ IsSchemeChar(Head(s)) THEN 1 + SchemeRun(Tail(s)) ELSE 0

\* length of the scheme of s, 0 when s has none
SchemeLen(s) ==
  IF s = <<>> \/ ~IsLetter(Head(s)) THEN 0
  ELSE LET n == SchemeRun(s)
       IN IF n < Len(s) /\ s[n + 1] = ":" THEN n ELSE 0

\* the prefix of s before its first character in stops
RECURSIVE UpTo(_, _)
UpTo(s, stops) ==
  IF s = <<>> \/ Head(s) \in stops THEN <<>>
  ELSE <<Head(s)>> \o UpTo(Tail(s), stops)

RECURSIVE SkipSlashes(_)
SkipSlashes(s) ==
  IF s # <<>> /\ Head(s) \in {"/", "\\"} THEN SkipSlashes(Tail(s)) ELSE s

IsHostChar(c) == IsLetter(c) \/ c \in Digits \/ c \in {".", "-"}

\* percent-encoding of the characters of the path and query encode sets that
\* the model's alphabet holds
PathEncoded(c) ==
  CASE c = " " -> <<"%", "2", "0">>
    [] c = "\"" -> <<"%", "2", "2">>
    [] c = "<" -> <<"%", "3", "C">>
    [] c = ">" -> <<"%", "3", "E">>
    [] c = "{" -> <<"%", "7", "B">>
    [] c = "}" -> <<"%", "7", "D">>
    [] OTHER -> <<c>>

QueryEncoded(c) ==
  CASE c = " " -> <<"%", "2", "0">>
    [] c = "\"" -> <<"%", "2", "2">>
    [] c = "<" -> <<"%", "3", "C">>
    [] c = ">" -> <<"%", "3", "E">>
    [] c = "'" -> <<"%", "2", "7">>
    [] OTHER -> <<c>>

RECURSIVE EncodePath(_)
EncodePath(s) ==
  IF s = <<>> THEN <<>> ELSE PathEncoded(Head(s)) \o EncodePath(Tail(s))

RECURSIVE EncodeQuery(_)
EncodeQuery(s) ==
  IF s = <<>> THEN <<>> ELSE QueryEncoded(Head(s)) \o EncodeQuery(Tail(s))

UrlFailure == [ok |-> FALSE, href |-> <<>>, pathname |-> <<>>, search |-> <<>>]

HttpScheme == <<"h", "t", "t", "p">>

HttpsScheme == <<"h", "t", "t", "p", "s">>

DefaultPort(scheme) ==
  IF scheme = HttpsScheme THEN <<"4", "4", "3">> ELSE <<"8", "0">>

\* a URL of a special scheme (http, https): scheme://host[:port]path[?query]
SpecialURL(scheme, rest) ==
  LET r1 == SkipSlashes(rest)
      authority == UpTo(r1, {"/", "?", "#"})
      after == SubSeq(r1, Len(authority) + 1, Len(r1))
      host == UpTo(authority, {":"})
      hasPort == Len(host) < Len(authority)
      port == IF hasPort THEN SubSeq(authority, Len(host) + 2, Len(authority))
              ELSE <<>>
      path0 == UpTo(after, {"?", "#"})
      path == IF path0 = <<>> THEN <<"/">> ELSE EncodePath(path0)
      query == EncodeQuery(SubSeq(after, Len(path0) + 1, Len(after)))
      search == IF query = <<"?">> THEN <<>> ELSE query
      shownPort == IF port = <<>> \/ port = DefaultPort(scheme) THEN <<>>
                   ELSE <<":">> \o port
  IN IF \/ host = <<>>
        \/ \E i \in 1..Len(host) : ~IsHostChar(host[i])
        \/ \E i \in 1..Len(port) : port[i] \notin Digits
     THEN UrlFailure
     ELSE [ok |-> TRUE,
           href |-> scheme \o <<":", "/", "/">> \o ToLowerCase(host)
                      \o shownPort \o path \o query,
           pathname |-> path,
           search |-> search]

\* a URL of any other scheme: scheme:path[?query], or scheme://authority...
OtherURL(scheme, rest) ==
  LET hasAuthority == StartsWith(rest, <<"/", "/">>)
      authority == IF hasAuthority
                   THEN UpTo(SubSeq(rest, 3, Len(rest)), {"/", "?", "#"})
                   ELSE <<>>
      skip == IF hasAuthority THEN 2 + Len(authority) ELSE 0
      after == SubSeq(rest, skip + 1, Len(rest))
      path == UpTo(after, {"?", "#"})
      query == SubSeq(after, Len(path) + 1, Len(after))
  IN [ok |-> TRUE,
      href |-> scheme \o <<":">> \o rest,
      pathname |-> path,
      search |-> IF query = <<"?">> THEN <<>> ELSE query]

\* new URL(input): fails when input has no scheme (there is no base URL)
URL(input) ==
  LET n == SchemeLen(input)
      scheme == ToLowerCase(SubSeq(input, 1, n))
      rest == SubSeq(input, n + 2, Len(input))
  IN IF n = 0 THEN UrlFailure
     ELSE IF scheme \in {HttpScheme, HttpsScheme} THEN SpecialURL(scheme, rest)
     ELSE OtherURL(scheme, rest)

\* ------------------------------------------------------------------------
\* parseRequestLine
\* ------------------------------------------------------------------------

\* host.toString().replace(/:(443|8443|80)$/, '')
StripKnownPort(h) ==
  LET ends(p) == Len(h) >= Len(p) /\ SubSeq(h, Len(h) - Len(p) + 1, Len(h)) = p
      cut(p) == SubSeq(h, 1, Len(h) - Len(p))
  IN IF ends(<<":", "8", "4", "4", "3">>) THEN cut(<<":", "8", "4", "4", "3">>)
     ELSE IF ends(<<":", "4", "4", "3">>) THEN cut(<<":", "4", "4", "3">>)
     ELSE IF ends(<<":", "8", "0">>) THEN cut(<<":", "8", "0">>)
     ELSE h

\* const [, port] = host.toString().split(':'): the second piece, if any
SplitPort(h) ==
  LET pieces == Split(h, ":")
  IN IF Len(pieces) >= 2 THEN Defined(pieces[2]) ELSE Undefined

\* the scheme chosen for a relative target from the Host value
SchemeOfHost(h) ==
  LET port == SplitPort(h)
  IN IF port = Defined(<<"4", "4", "3">>) \/ port = Defined(<<"8", "4", "4", "3">>)
     THEN HttpsScheme ELSE HttpScheme

RelativeUriError == "Host header is required for relative URI"

\* lines 160-179: the method, the version and the request target of the line
RequestLineParts(line) ==
  LET matches == REQUEST_LINE_PREFIX(line)
      matched == matches # {}
      method == IF matched THEN RequestLineMethods[Min(matches)]
                ELSE DEFAULT_METHOD
      \* match[0] is the method and the one whitespace character after it
      uri0 == Trim(IF matched THEN Substring(line, Len(method) + 1) ELSE line)
      vstarts == HttpVersionStarts(uri0)
  IN [method |-> method,
      version |-> IF vstarts # {}
                  THEN Trim(SubSeq(uri0, Min(vstarts), Len(uri0)))
                  ELSE DEFAULT_VERSION,
      requestUri |-> IF vstarts # {} THEN SubSeq(uri0, 1, Min(vstarts) - 1)
                     ELSE uri0]

\* ResolveUri with the test for the Host value left out of line 189
ResolveUriWithoutHostTest(requestUri, host) ==
  LET url == URL(requestUri)
  IN IF url.ok
     THEN [ok |-> TRUE, error |-> "",
           pathname |-> url.pathname \o url.search, uri |-> url.href]
     ELSE IF StartsWith(requestUri, <<"/">>)
     THEN [ok |-> TRUE, error |-> "",
           pathname |-> requestUri,
           uri |-> SchemeOfHost(host.value) \o <<":", "/", "/">>
                     \o StripKnownPort(host.value) \o requestUri]
     ELSE [ok |-> FALSE, error |-> RelativeUriError,
           pathname |-> <<>>, uri |-> <<>>]

\* lines 181-197: pathname and uri of the target, given the Host value
ResolveUri(requestUri, host) ==
  LET url == URL(requestUri)
  IN IF url.ok
     THEN [ok |-> TRUE, error |-> "",
           pathname |-> url.pathname \o url.search, uri |-> url.href]
     ELSE IF Truthy(host) /\ StartsWith(requestUri, <<"/">>)
     THEN [ok |-> TRUE, error |-> "",
           pathname |-> requestUri,
           uri |-> SchemeOfHost(host.value) \o <<":", "/", "/">>
                     \o StripKnownPort(host.value) \o requestUri]
     ELSE [ok |-> FALSE, error |-> RelativeUriError,
           pathname |-> <<>>, uri |-> <<>>]

parseRequestLine(line, host) ==
  LET parts == RequestLineParts(line)
      r == ResolveUri(parts.requestUri, host)
  IN IF r.ok
     THEN [ok |-> TRUE, error |-> "", method |-> parts.method,
           pathname |-> r.pathname, uri |-> r.uri, version |-> parts.version]
     ELSE [ok |-> FALSE, error |-> r.error, method |-> <<>>,
           pathname |-> <<>>, uri |-> <<>>, version |-> <<>>]

\* ------------------------------------------------------------------------
\* parseHeaders
\* ------------------------------------------------------------------------

FieldNameError == "Header field-name is not valid"

FieldValueError == "Header field-value is not valid"

\* const [name, ...rest] = headerLine.split(':')
FieldNameOf(headerLine) == Split(headerLine, ":")[1]

\* rest.join(':').trim()
FieldValueOf(headerLine) ==
  Trim(Join(Tail(Split(headerLine, ":")), <<":">>))

\* the separator of line 245 without the case for cookie
SeparatorAlwaysComma(normalizedFieldName) == ","

\* normalizedFieldName === 'cookie' ? ';' : ','
SeparatorOf(normalizedFieldName) ==
  IF normalizedFieldName = CookieName THEN ";" ELSE ","

\* value.split(separator).map((v) => v.trim())
ExistingValues(value, separator) ==
  LET pieces == Split(value, separator)
  IN [i \in 1..Len(pieces) |-> Trim(pieces[i])]

\* [...existingValues, fieldValue].join(`${separator} `)
CombineValues(value, separator, fieldValue) ==
  Join(Append(ExistingValues(value, separator), fieldValue),
       <<separator, " ">>)

\* headerNames[normalizedFieldName]: the indices of the entries under that key
HeaderNameEntries(acc, normalizedFieldName) ==
  {i \in DOMAIN acc.headerNames : acc.headerNames[i].key = normalizedFieldName}

\* The body of the forEach callback for one header line.  acc holds headers
\* (the insertion-ordered object, as a sequence of name/value pairs),
\* headerNames and the error thrown so far, if any.
ParseHeaderLine(acc, headerLine) ==
  LET fieldName == FieldNameOf(headerLine)
      fieldValue == FieldValueOf(headerLine)
      normalizedFieldName == ToLowerCase(fieldName)
      seen == HeaderNameEntries(acc, normalizedFieldName)
  IN IF ~acc.ok THEN acc
     ELSE IF ~HEADER_LINE_FIELD_NAME(fieldName)
     THEN [acc EXCEPT !.ok = FALSE, !.error = FieldNameError]
     ELSE IF ~HEADER_LINE_FIELD_VALUE(fieldValue)
     THEN [acc EXCEPT !.ok = FALSE, !.error = FieldValueError]
     ELSE IF seen = {}
     THEN [acc EXCEPT
             !.headerNames = Append(@, [key |-> normalizedFieldName,
                                        name |-> fieldName]),
             !.headers = Append(@, [name |-> fieldName, value |-> fieldValue])]
     ELSE LET headerName == acc.headerNames[Min(seen)].name
              separator == SeparatorOf(normalizedFieldName)
          IN [acc EXCEPT
                !.headers = [i \in DOMAIN @ |->
                   IF @[i].name = headerName
                   THEN [name |-> headerName,
                         value |-> CombineValues(@[i].value, separator, fieldValue)]
                   ELSE @[i]]]

RECURSIVE ParseHeaderLines(_, _)
ParseHeaderLines(acc, headerLines) ==
  IF headerLines = <<>> THEN acc
  ELSE ParseHeaderLines(ParseHeaderLine(acc, Head(headerLines)), Tail(headerLines))

\* parseHeaders(headerLines): [ok, error, headers, headerNames]
parseHeaders(headerLines) ==
  ParseHeaderLines([ok |-> TRUE, error |-> "", headers |-> <<>>,
                    headerNames |-> <<>>], headerLines)

\* ------------------------------------------------------------------------
\* parseBody
\* ------------------------------------------------------------------------

ContentTypeError == "No Content-Type header set for body"

\* parseBody with the test of line 260 asking for more than one line
parseBodyOffByOne(ls, contentType) ==
  IF Len(ls) = 0 THEN [ok |-> TRUE, error |-> "", body |-> Undefined]
  ELSE IF Len(ls) > 1 /\ ~contentType.defined
  THEN [ok |-> FALSE, error |-> ContentTypeError, body |-> Undefined]
  ELSE [ok |-> TRUE, error |-> "", body |-> Defined(Trim(Join(ls, <<" ">>)))]

\* parseBody(lines, contentType): [ok, error, body]
parseBody(ls, contentType) ==
  IF Len(ls) = 0 THEN [ok |-> TRUE, error |-> "", body |-> Undefined]
  ELSE IF ~contentType.defined
  THEN [ok |-> FALSE, error |-> ContentTypeError, body |-> Undefined]
  ELSE [ok |-> TRUE, error |-> "", body |-> Defined(Trim(Join(ls, <<" ">>)))]

\* ------------------------------------------------------------------------
\* parseHttpRequest, as a function of the document
\* ------------------------------------------------------------------------

\* the fragments of the request line joined with a space between them
RawRequestLineSpaced(rls) == Join([i \in 1..Len(rls) |-> Trim(rls[i])], <<" ">>)

\* requestLines.map((line) => line.trim()).join('')
RawRequestLine(rls) == Join([i \in 1..Len(rls) |-> Trim(rls[i])], <<>>)

\* lines 128-141, given the three groups of the classifier
Assemble(c) ==
  LET hs == parseHeaders(c.headersLines)
      host == getHeader(hs.headers, HostName)
      rl == parseRequestLine(RawRequestLine(c.requestLines), host)
      contentType == getHeader(hs.headers, ContentTypeName)
      b == parseBody(c.bodyLines, contentType)
  IN IF ~hs.ok THEN HttpParseError(hs.error)
     ELSE IF ~rl.ok THEN HttpParseError(rl.error)
     ELSE IF ~b.ok THEN HttpParseError(b.error)
     ELSE [ok |-> TRUE, error |-> "", method |-> rl.method,
           pathname |-> rl.pathname, uri |-> rl.uri, version |-> rl.version,
           headers |-> hs.headers, body |-> b.body]

parseHttpRequest(message) == Assemble(Classify(ClassifierStart(message)))

\* ------------------------------------------------------------------------
\* Documents
\* ------------------------------------------------------------------------

CommentLine == <<"/", "/", " ", "c">>

AbsoluteRequest ==
  <<"G", "E", "T", " ", "h", "t", "t", "p", ":", "/", "/", "h", "/", "p",
    "?", "a", "&", "b">>

RelativeRequest == <<"G", "E", "T", " ", "/", "p">>

PatchRequest ==
  <<"P", "A", "T", "C", "H", " ", "h", "t", "t", "p", ":", "/", "/", "h",
    "/", "p">>

HostLine == <<"H", "o", "s", "t", ":", " ", "h", ":", "8", "4", "4", "3">>

HostIPv6Line ==
  <<"H", "o", "s", "t", ":", " ", "[", ":", ":", "1", "]", ":", "4", "4", "3">>

ContentTypeLine ==
  <<"C", "o", "n", "t", "e", "n", "t", "-", "T", "y", "p", "e", ":", " ", "t">>

BlankLine == <<>>

\* a line of body text; read as a header line its field name is not valid
BodyText == <<"{", "}">>

\* the physical lines documents are made of
LineLib ==
  {CommentLine, AbsoluteRequest, RelativeRequest, PatchRequest, HostLine,
   HostIPv6Line, ContentTypeLine, BlankLine, BodyText}

\* all sequences over S of length 1..n
SeqsUpTo(S, n) == UNION {[1..k -> S] : k \in 1..n}

\* message.split(EOL) of the documents of Spec
Documents == SeqsUpTo(LineLib, MaxLines)

\* header lines of SpecHeaders: repeated names in several casings, values
\* that hold the separator themselves, an empty value
HeaderLib ==
  { <<"X", ":", " ", "a">>,
    <<"x", ":", " ", "b", ",", "c">>,
    <<"X", ":", "d", " ", ",", "e">>,
    <<"X", ":">>,
    <<"C", "o", "o", "k", "i", "e", ":", " ", "k", "=", "1">>,
    <<"c", "o", "o", "k", "i", "e", ":", " ", "j", ";", "i">> }

\* a request line followed by header lines only
HeaderDocuments ==
  {<<AbsoluteRequest>> \o hl : hl \in SeqsUpTo(HeaderLib, MaxHeaderLines)}

VersionRequest ==
  <<"G", "E", "T", " ", "h", "t", "t", "p", ":", "/", "/", "h", "/", "p",
    " ", "H", "T", "T", "P", "/", "1", ".", "1">>

\* request lines whose targets can be split across lines
SplitRequestLines ==
  {AbsoluteRequest, RelativeRequest, PatchRequest, VersionRequest}

\* a request line followed by any lines
SplitDocuments ==
  {<<first>> \o rest :
     first \in SplitRequestLines,
     rest \in {<<>>} \cup SeqsUpTo(LineLib, MaxFollowingLines)}

\* a header line whose field name is valid and whose field value holds a
\* character (a tab) that HEADER_LINE_FIELD_VALUE does not allow
BadValueLine == <<"X", ":", " ", "a", "\t", "b">>

\* the physical lines of the documents of SpecOrder: lines that fail in the
\* header parser, in the request-line parser and in the body assembler
OrderLib ==
  {AbsoluteRequest, RelativeRequest, HostLine, ContentTypeLine, BlankLine,
   BodyText, BadValueLine}

\* message.split(EOL) of the documents of SpecOrder
OrderDocuments == SeqsUpTo(OrderLib, MaxLines)

\* ------------------------------------------------------------------------
\* parseHttpRequest as a state machine
\* ------------------------------------------------------------------------

VARIABLES
  doc,           \* message.split(EOL), as handed to parseHttpRequest
  lines,         \* the lines not yet shifted
  state,         \* ParseState
  prevState,     \* ParseState or "null"
  requestLines,
  headersLines,
  bodyLines,
  pc,            \* "classify", "requestLine", "body" or "done"
  headers,       \* the result of parseHeaders
  requestLine,   \* the result of parseRequestLine
  result         \* what parseHttpRequest returned or threw

vars ==
  <<doc, lines, state, prevState, requestLines, headersLines, bodyLines, pc,
    headers, requestLine, result>>

\* the local variables of the loop, as one record
Classifier ==
  [lines |-> lines, state |-> state, prevState |-> prevState,
   requestLines |-> requestLines, headersLines |-> headersLines,
   bodyLines |-> bodyLines]

NoRequestLine ==
  [ok |-> FALSE, error |-> "", method |-> <<>>, pathname |-> <<>>,
   uri |-> <<>>, version |-> <<>>]

NoResult == HttpParseError("")

InitWith(message) ==
  /\ doc = message
  /\ lines = message
  /\ state = "RequestLine"
  /\ prevState = "null"
  /\ requestLines = <<>>
  /\ headersLines = <<>>
  /\ bodyLines = <<>>
  /\ pc = "classify"
  /\ headers = <<>>
  /\ requestLine = NoRequestLine
  /\ result = NoResult

Init == \E message \in Documents : InitWith(message)

InitHeaders == \E message \in HeaderDocuments : InitWith(message)

InitSplit == \E message \in SplitDocuments : InitWith(message)

InitOrder == \E message \in OrderDocuments : InitWith(message)

\* one iteration of the while loop (lines 76-126)
ReadLine ==
  /\ pc = "classify"
  /\ lines # <<>>
  /\ LET c == ClassifyLine(Classifier)
     IN /\ lines' = c.lines
        /\ state' = c.state
        /\ prevState' = c.prevState
        /\ requestLines' = c.requestLines
        /\ headersLines' = c.headersLines
        /\ bodyLines' = c.bodyLines
  /\ UNCHANGED <<doc, pc, headers, requestLine, result>>

\* line 128 with the error of parseHeaders recorded and parsing carried on
\* with no headers, instead of the throw ending parseHttpRequest
ParseHeadersWithoutStopping ==
  /\ pc = "classify"
  /\ lines = <<>>
  /\ LET hs == parseHeaders(headersLines)
     IN IF hs.ok
        THEN /\ headers' = hs.headers
             /\ pc' = "requestLine"
             /\ result' = result
        ELSE /\ headers' = headers
             /\ pc' = "requestLine"
             /\ result' = HttpParseError(hs.error)
  /\ UNCHANGED <<doc, lines, state, prevState, requestLines, headersLines,
                 bodyLines, requestLine>>

\* the loop has ended: parseHeaders(headersLines) (line 128)
ParseHeaders ==
  /\ pc = "classify"
  /\ lines = <<>>
  /\ LET hs == parseHeaders(headersLines)
     IN IF hs.ok
        THEN /\ headers' = hs.headers
             /\ pc' = "requestLine"
             /\ result' = result
        ELSE /\ headers' = headers
             /\ pc' = "done"
             /\ result' = HttpParseError(hs.error)
  /\ UNCHANGED <<doc, lines, state, prevState, requestLines, headersLines,
                 bodyLines, requestLine>>

\* getHeader(headers, 'host') and parseRequestLine (lines 129-132)
ParseRequestLine ==
  /\ pc = "requestLine"
  /\ LET host == getHeader(headers, HostName)
         rl == parseRequestLine(RawRequestLine(requestLines), host)
     IN IF rl.ok
        THEN /\ requestLine' = rl
             /\ pc' = "body"
             /\ result' = result
        ELSE /\ requestLine' = requestLine
             /\ pc' = "done"
             /\ result' = HttpParseError(rl.error)
  /\ UNCHANGED <<doc, lines, state, prevState, requestLines, headersLines,
                 bodyLines, headers>>

\* getHeader(headers, 'content-type'), parseBody and the return (lines 134-141)
ParseBody ==
  /\ pc = "body"
  /\ LET contentType == getHeader(headers, ContentTypeName)
         b == parseBody(bodyLines, contentType)
     IN result' =
          IF b.ok
          THEN [ok |-> TRUE, error |-> "", method |-> requestLine.method,
                pathname |-> requestLine.pathname, uri |-> requestLine.uri,
                version |-> requestLine.version, headers |-> headers,
                body |-> b.body]
          ELSE HttpParseError(b.error)
  /\ pc' = "done"
  /\ UNCHANGED <<doc, lines, state, prevState, requestLines, headersLines,
                 bodyLines, headers, requestLine>>

Next == ReadLine \/ ParseHeaders \/ ParseRequestLine \/ ParseBody

Spec == Init /\ [][Next]_vars

SpecHeaders == InitHeaders /\ [][Next]_vars

SpecSplit == InitSplit /\ [][Next]_vars

SpecOrder == InitOrder /\ [][Next]_vars

\* the step-by-step run and the function agree on every document
RunMatchesFunction == pc = "done" => result = parseHttpRequest(doc)

\* ------------------------------------------------------------------------
\* Vocabulary of the claims, stated on the document and the line groups
\* rather than through the parser's own operators
\* ------------------------------------------------------------------------

\* the line begins with // once trimmed
BeginsWithSlashes(line) ==
  LET t == Trim(line) IN Len(t) >= 2 /\ t[1] = "/" /\ t[2] = "/"

\* the document without its comment lines (an empty document is one empty line)
RECURSIVE DropCommentLines(_)
DropCommentLines(message) ==
  IF message = <<>> THEN <<>>
  ELSE IF BeginsWithSlashes(Head(message)) THEN DropCommentLines(Tail(message))
  ELSE <<Head(message)>> \o DropCommentLines(Tail(message))

WithoutComments(message) ==
  IF DropCommentLines(message) = <<>> THEN <<BlankLine>>
  ELSE DropCommentLines(message)

\* the line has the form of a header line: field-name ":" field-value
HasColon(line) == \E i \in 1..Len(line) : line[i] = ":"

IsHeaderShaped(line) ==
  HasColon(line) /\ HEADER_LINE_FIELD_NAME(Split(Trim(line), ":")[1])

\* the lower-cased field names of the header lines the classifier collected
HeaderLineNames ==
  {ToLowerCase(Split(headersLines[i], ":")[1]) : i \in DOMAIN headersLines}

\* every collected header line has a valid field name and field value
HeaderLinesValid ==
  \A i \in DOMAIN headersLines :
     /\ HEADER_LINE_FIELD_NAME(FieldNameOf(headersLines[i]))
     /\ HEADER_LINE_FIELD_VALUE(FieldValueOf(headersLines[i]))

\* the reconstructed request line and its target
TheRequestLine == RawRequestLine(requestLines)

TheTarget == RequestLineParts(TheRequestLine).requestUri

\* ------------------------------------------------------------------------
\* C1
\* ------------------------------------------------------------------------

RequestLineMissingError == "Request-line not starting with method"

\* C1: a document whose first non-comment line is a header line, not a
\* request line, fails with "Request-line not starting with method".
C1_HeaderBeforeRequestLineIsRejected ==
  (pc = "done" /\ IsHeaderShaped(Head(WithoutComments(doc))))
    => result = HttpParseError(RequestLineMissingError)

\* ------------------------------------------------------------------------
\* C2
\* ------------------------------------------------------------------------

\* the recognized methods the request line begins with (at most one)
LeadingMethods == {m \in methods : MethodPrefixAt(TheRequestLine, m)}

\* C2: a request line that begins with one of the eight recognized methods
\* and whitespace has that method; any other request line has method GET and
\* is its own target; so the method is always one of the eight.
C2_MethodIsOneOfTheEight ==
  (pc \in {"body", "done"} /\ requestLine.ok) =>
     /\ \A m \in LeadingMethods : requestLine.method = m
     /\ LeadingMethods = {} =>
          /\ requestLine.method = DEFAULT_METHOD
          /\ TheTarget = RequestLineParts(DEFAULT_METHOD \o <<" ">> \o TheRequestLine).requestUri
     /\ requestLine.method \in methods

\* ------------------------------------------------------------------------
\* C3
\* ------------------------------------------------------------------------

\* C3: the outcome for a document is the outcome for the same document with
\* every line that begins with // removed.
C3_CommentsAreIgnored ==
  pc = "done" => result = parseHttpRequest(WithoutComments(doc))

\* ------------------------------------------------------------------------
\* C4
\* ------------------------------------------------------------------------

\* the value of the first Host header line, as parseHeaders trims it
HostLines ==
  {i \in DOMAIN headersLines :
     ToLowerCase(Split(headersLines[i], ":")[1]) = HostName}

TheHost == FieldValueOf(headersLines[Min(HostLines)])

\* the port of a Host value host[:port]: the digits after its last colon
LastColon(h) == {i \in 1..Len(h) : h[i] = ":" /\ \A j \in (i + 1)..Len(h) : h[j] # ":"}

PortOfHost(h) ==
  IF LastColon(h) = {} THEN <<>>
  ELSE LET p == SubSeq(h, Min(LastColon(h)) + 1, Len(h))
       IN IF \A i \in 1..Len(p) : p[i] \in Digits THEN p ELSE <<>>

SecurePorts == {<<"4", "4", "3">>, <<"8", "4", "4", "3">>}

StrippedPorts == SecurePorts \cup {<<"8", "0">>}

\* the Host value without a trailing :443, :8443 or :80
HostWithoutKnownPort(h) ==
  IF PortOfHost(h) \in StrippedPorts
  THEN SubSeq(h, 1, Len(h) - Len(PortOfHost(h)) - 1)
  ELSE h

\* the request line has been parsed with one Host header line of value H and
\* a target that starts with /
C4_Case ==
  /\ pc \in {"body", "done"}
  /\ HeaderLinesValid
  /\ Cardinality(HostLines) = 1
  /\ TheHost # <<>>
  /\ StartsWith(TheTarget, <<"/">>)

\* C4: for a target that starts with / and a Host value H, the scheme is
\* https exactly when H's port is 443 or 8443, a trailing :443, :8443 or :80
\* is stripped from H, uri = scheme://stripped-host + target and
\* pathname = target.
C4_RelativeTargetResolvesAgainstHost ==
  C4_Case =>
     /\ requestLine.ok
     /\ requestLine.pathname = TheTarget
     /\ requestLine.uri =
          (IF PortOfHost(TheHost) \in SecurePorts THEN HttpsScheme ELSE HttpScheme)
            \o <<":", "/", "/">> \o HostWithoutKnownPort(TheHost) \o TheTarget

\* ------------------------------------------------------------------------
\* C5
\* ------------------------------------------------------------------------

\* the target is relative and no header line is a Host header
C5_Case ==
  /\ pc = "done"
  /\ ~URL(TheTarget).ok
  /\ HostName \notin HeaderLineNames

\* C5 as stated: a relative target with no Host header always fails with
\* "Host header is required for relative URI".
C5_Original_RelativeWithoutHostFails ==
  C5_Case => result = HttpParseError(RelativeUriError)

\* C5, amended: when every header line is valid, a relative target with no
\* Host header fails with "Host header is required for relative URI" and no
\* request object is returned.
C5_RelativeWithoutHostFails ==
  (C5_Case /\ HeaderLinesValid) => result = HttpParseError(RelativeUriError)

\* a relative target, valid header lines, none of them Host: the error is thrown
C5_Witness ==
  /\ C5_Case
  /\ HeaderLinesValid
  /\ headersLines # <<>>
  /\ StartsWith(TheTarget, <<"/">>)
  /\ result.error = RelativeUriError

\* ------------------------------------------------------------------------
\* C6
\* ------------------------------------------------------------------------

\* C6 as stated: body lines without a content-type header always fail with
\* "No Content-Type header set for body"; without body lines parsing never
\* fails for that reason and the body is absent; a returned body is absent
\* only when no body lines were collected.
C6_Original_BodyNeedsContentType ==
  pc = "done" =>
     /\ (bodyLines # <<>> /\ ContentTypeName \notin HeaderLineNames)
          => result = HttpParseError(ContentTypeError)
     /\ bodyLines = <<>>
          => /\ result.error # ContentTypeError
             /\ result.ok => ~result.body.defined
     /\ (result.ok /\ ~result.body.defined) => bodyLines = <<>>

\* C6, amended: the failure is "No Content-Type header set for body" when the
\* header lines and the request line have parsed; the rest as stated.
C6_BodyNeedsContentType ==
  pc = "done" =>
     /\ (bodyLines # <<>> /\ ContentTypeName \notin HeaderLineNames
           /\ HeaderLinesValid /\ requestLine.ok)
          => result = HttpParseError(ContentTypeError)
     /\ bodyLines = <<>>
          => /\ result.error # ContentTypeError
             /\ result.ok => ~result.body.defined
     /\ (result.ok /\ ~result.body.defined) => bodyLines = <<>>

\* a single body line after a parsed request line, no content-type: the error
C6_Witness ==
  /\ pc = "done"
  /\ Len(bodyLines) = 1
  /\ ContentTypeName \notin HeaderLineNames
  /\ requestLine.ok
  /\ result.error = ContentTypeError

\* ------------------------------------------------------------------------
\* C7 (checked under SpecHeaders)
\* ------------------------------------------------------------------------

\* the values of the header lines named n (lower-cased), in order of occurrence
RECURSIVE ValuesNamed(_, _)
ValuesNamed(hls, n) ==
  IF hls = <<>> THEN <<>>
  ELSE (IF ToLowerCase(Split(Head(hls), ":")[1]) = n
        THEN <<Trim(Join(Tail(Split(Head(hls), ":")), <<":">>))>> ELSE <<>>)
       \o ValuesNamed(Tail(hls), n)

\* the casing under which n first occurs
RECURSIVE FirstCasing(_, _)
FirstCasing(hls, n) ==
  IF ToLowerCase(Split(Head(hls), ":")[1]) = n THEN Split(Head(hls), ":")[1]
  ELSE FirstCasing(Tail(hls), n)

\* "; " for cookie, ", " for every other name
ListSeparator(n) == IF n = CookieName THEN <<";", " ">> ELSE <<",", " ">>

\* the pieces of a value between separator characters, each trimmed
TrimmedPieces(v, n) ==
  LET pieces == Split(v, ListSeparator(n)[1])
  IN [i \in 1..Len(pieces) |-> Trim(pieces[i])]

RECURSIVE Flatten(_)
Flatten(ss) == IF ss = <<>> THEN <<>> ELSE Head(ss) \o Flatten(Tail(ss))

\* the pieces of every value but the last, then the last value as written
PiecesThenLast(vs, n) ==
  Flatten([i \in 1..(Len(vs) - 1) |-> TrimmedPieces(vs[i], n)])
    \o <<vs[Len(vs)]>>

\* keys are unique case-insensitively, cover every name, and have the
\* first-seen casing
C7_Keys ==
  /\ \A i, j \in DOMAIN headers :
        i # j => ToLowerCase(headers[i].name) # ToLowerCase(headers[j].name)
  /\ {ToLowerCase(headers[i].name) : i \in DOMAIN headers} = HeaderLineNames
  /\ \A i \in DOMAIN headers :
        headers[i].name = FirstCasing(headersLines, ToLowerCase(headers[i].name))

Indents == {<<>>, <<" ", " ">>}

\* the first line of the document is its request line
FirstLineIsRequestLine ==
  Trim(doc[1]) # <<>> /\ ~BeginsWithSlashes(doc[1])

\* the positions of the target in the (trimmed) line t
TargetSpan(t) ==
  LET parts == RequestLineParts(t)
      lead == {m \in Range(RequestLineMethods) : MethodPrefixAt(t, m)}
      afterMethod == IF lead = {} THEN 0 ELSE Len(parts.method) + 1
      first == Len(t) - Len(TrimStart(SubSeq(t, afterMethod + 1, Len(t)))) + 1
  IN first..(first + Len(parts.requestUri) - 1)

\* where the target may be split: at a /, ? or & (not at the start of the line)
SplitPoints(t) == {p \in TargetSpan(t) : p > 1 /\ t[p] \in {"/", "?", "&"}}

\* the fragment that starts at p when t is split at the points P
FragmentAt(t, P, p) ==
  LET later == {q \in P : q > p}
  IN SubSeq(t, p, IF later = {} THEN Len(t) ELSE Min(later) - 1)

\* t split at the points P, each continuation fragment indented
SplitLine(t, P, indent) ==
  LET n == Cardinality(P)
      at(k) == CHOOSE p \in P : Cardinality({q \in P : q < p}) = k - 1
  IN <<SubSeq(t, 1, Min(P) - 1)>>
       \o [k \in 1..n |-> indent \o FragmentAt(t, P, at(k))]

SplitDocument(P, indent) == SplitLine(Trim(doc[1]), P, indent) \o Tail(doc)

\* splits whose continuation fragments keep their text and are not comments
CleanSplit(t, P) ==
  \A p \in P : ~IsWs(t[p - 1]) /\ ~BeginsWithSlashes(FragmentAt(t, P, p))

\* C8 as stated: splitting the target at any of its /, ? or & characters
\* gives the result of the one-line request.
C8_Original_SplitTargetParsesAlike ==
  (pc = "done" /\ FirstLineIsRequestLine) =>
     \A P \in SUBSET SplitPoints(Trim(doc[1])) : \A indent \in Indents :
        P # {} => parseHttpRequest(SplitDocument(P, indent)) = result

\* C8, amended: the same, for splits where no split point follows whitespace
\* and no continuation fragment begins with //.
C8_SplitTargetParsesAlike ==
  (pc = "done" /\ FirstLineIsRequestLine) =>
     \A P \in SUBSET SplitPoints(Trim(doc[1])) : \A indent \in Indents :
        (P # {} /\ CleanSplit(Trim(doc[1]), P))
           => parseHttpRequest(SplitDocument(P, indent)) = result

\* a request that parses, split at two points of its target
C8_Witness ==
  /\ pc = "done"
  /\ result.ok
  /\ FirstLineIsRequestLine
  /\ headersLines # <<>>
  /\ \E P \in SUBSET SplitPoints(Trim(doc[1])) :
        /\ Cardinality(P) = 2
        /\ CleanSplit(Trim(doc[1]), P)
        /\ parseHttpRequest(SplitDocument(P, <<" ", " ">>)) = result

\* ------------------------------------------------------------------------
\* C9
\* ------------------------------------------------------------------------

\* C9: no line that begins with // is ever in the request-line, header-line
\* or body-line group.
C9_NoCommentLineCollected ==
  /\ \A i \in DOMAIN requestLines : ~BeginsWithSlashes(requestLines[i])
  /\ \A i \in DOMAIN headersLines : ~BeginsWithSlashes(headersLines[i])
  /\ \A i \in DOMAIN bodyLines : ~BeginsWithSlashes(bodyLines[i])

\* a comment line was read inside the body and the body was collected
C9_Witness ==
  /\ pc = "done"
  /\ doc[1] = AbsoluteRequest
  /\ requestLine.ok
  /\ Len(doc) >= 4
  /\ doc[2] = BlankLine
  /\ BeginsWithSlashes(doc[3])
  /\ bodyLines = <<Trim(doc[4])>>

\* ------------------------------------------------------------------------
\* C10
\* ------------------------------------------------------------------------

\* the section state a comment block interrupted
Interrupted == IF state = "Comment" THEN prevState ELSE state

\* the line about to be read, and whether a comment line follows it
CurrentLine == Trim(Head(lines))

CommentFollows == Len(lines) >= 2 /\ BeginsWithSlashes(lines[2])

\* C10: within a comment block the classifier stays in Comment; at the end
\* of the block it is back in the state the block interrupted; the first
\* line after the block is read in a section state and goes to that
\* section's group.
C10_CommentBlockRestoresState ==
  [][(pc = "classify" /\ lines # <<>>) =>
       /\ (BeginsWithSlashes(CurrentLine) /\ CommentFollows)
            => state' = "Comment"
       /\ (BeginsWithSlashes(CurrentLine) /\ ~CommentFollows)
            => state' = Interrupted
       /\ ~BeginsWithSlashes(CurrentLine)
            => /\ state # "Comment"
               /\ <<requestLines', headersLines', bodyLines'>>
                    # <<requestLines, headersLines, bodyLines>>]_vars

\* ------------------------------------------------------------------------
\* C11
\* ------------------------------------------------------------------------

\* the collected header lines whose field name or field value is not valid
InvalidHeaderLines ==
  {i \in DOMAIN headersLines :
     \/ ~HEADER_LINE_FIELD_NAME(FieldNameOf(headersLines[i]))
     \/ ~HEADER_LINE_FIELD_VALUE(FieldValueOf(headersLines[i]))}

\* the error of the first invalid header line: its name is looked at first
FirstHeaderError ==
  LET headerLine == headersLines[Min(InvalidHeaderLines)]
  IN IF ~HEADER_LINE_FIELD_NAME(FieldNameOf(headerLine))
     THEN FieldNameError
     ELSE FieldValueError

\* the header lines give a Host value that is not empty
HostGiven ==
  \/ Cardinality(HostLines) >= 2
  \/ HostLines # {} /\ TheHost # <<>>

\* the request line cannot be resolved: its target is not an absolute URI and
\* it is not a path with a Host value to resolve it against
RequestLineFails ==
  /\ ~URL(TheTarget).ok
  /\ ~(HostGiven /\ StartsWith(TheTarget, <<"/">>))

\* body lines were collected and no header line is a content-type header
BodyFails == bodyLines # <<>> /\ ContentTypeName \notin HeaderLineNames

====
